---------------------------- MODULE Spec2Model ----------------------------
(***************************************************************************)
(* Button (React Native Pressable wrapper) and AppText (Text wrapper):     *)
(* the props a parent passes, the pressed flag the Pressable reports, and  *)
(* the element tree each render returns.                                   *)
(*                                                                         *)
(* An optional value is a set: {} is JavaScript's undefined, {v} is v.     *)
(* A tw.style(...) result is the sequence of utility classes it was given, *)
(* in order, with falsy arguments dropped and multi-class strings split.   *)
(***************************************************************************)
EXTENDS Naturals, Sequences, FiniteSets, TLC

VARIABLES
    mounted,           \* which of the two components the host screen renders
    button,            \* the props last passed to Button
    pressed,           \* the pressed flag the Pressable hands to its style callback
    onPressCalls,      \* how many times the onPress handler has been invoked
    styleBeforePress,  \* history: the class list when the current press began
    text,              \* the props last passed to AppText
    snap               \* history: one earlier render, kept for comparison

vars == <<mounted, button, pressed, onPressCalls, styleBeforePress, text, snap>>

\* Bound on the number of onPress invocations explored.
MaxCalls == 1

Undefined == {}

Some(v) == {v}

Value(o) == CHOOSE v \in o : TRUE

\* A destructuring default: `name = d` takes d exactly when the prop is undefined.
Default(o, d) == IF o = Undefined THEN d ELSE Value(o)

\* JavaScript property access: a missing key reads as undefined.
Get(rec, key) == IF key \in DOMAIN rec THEN Some(rec[key]) ELSE Undefined

\* `cond && v` for a boolean cond: v when cond holds, else the falsy `false`,
\* which tw.style drops just as it drops undefined.
And(cond, v) == IF cond THEN v ELSE Undefined

Sizes == {"small", "medium", "large", "xlarge"}

Themes == {"primary", "action", "light",
           "primary-outlined", "action-outlined", "light-outlined"}

COLORS ==
    [primary |-> "#F02C56",
     action |-> "#0095f6",
     light |-> "#f1f1f1",
     white |-> "#ffffff",
     black |-> "#000000",
     gray |-> "#8e8e8e",
     transparent |-> "transparent"]

sizeConfig ==
    [small |-> [paddingX |-> "px-3", paddingY |-> "py-2",
                textSize |-> "text-sm", rounded |-> "rounded-md"],
     medium |-> [paddingX |-> "px-4", paddingY |-> "py-3",
                 textSize |-> "text-base", rounded |-> "rounded-lg"],
     large |-> [paddingX |-> "px-6", paddingY |-> "py-4",
                textSize |-> "text-lg", rounded |-> "rounded-lg"],
     xlarge |-> [paddingX |-> "px-8", paddingY |-> "py-5",
                 textSize |-> "text-xl", rounded |-> "rounded-xl"]]

themeConfig ==
    ("primary" :>
        [bg |-> "bg-[" \o COLORS.primary \o "]",
         border |-> "border-[" \o COLORS.primary \o "]",
         text |-> "text-white",
         pressedBg |-> "bg-[#d02647]",
         disabledBg |-> "bg-[#f59db3]"])
    @@ ("action" :>
        [bg |-> "bg-[" \o COLORS.action \o "]",
         border |-> "border-[" \o COLORS.action \o "]",
         text |-> "text-white",
         pressedBg |-> "bg-[#0077cc]",
         disabledBg |-> "bg-[#7fc7fa]"])
    @@ ("light" :>
        [bg |-> "bg-[" \o COLORS.light \o "]",
         border |-> "border-[" \o COLORS.light \o "]",
         text |-> "text-black",
         pressedBg |-> "bg-[#e0e0e0]",
         disabledBg |-> "bg-[#f8f8f8]"])
    @@ ("primary-outlined" :>
        [bg |-> "bg-transparent",
         border |-> "border-[" \o COLORS.primary \o "]",
         text |-> "text-[" \o COLORS.primary \o "]",
         pressedBg |-> "bg-[#fef0f3]",
         disabledBg |-> "bg-transparent",
         disabledText |-> "text-[#f59db3]"])
    @@ ("action-outlined" :>
        [bg |-> "bg-transparent",
         border |-> "border-[" \o COLORS.action \o "]",
         text |-> "text-[" \o COLORS.action \o "]",
         pressedBg |-> "bg-[#e6f5ff]",
         disabledBg |-> "bg-transparent",
         disabledText |-> "text-[#7fc7fa]"])
    @@ ("light-outlined" :>
        [bg |-> "bg-transparent",
         border |-> "border-[" \o COLORS.gray \o "]",
         text |-> "text-gray-800",
         pressedBg |-> "bg-[#f8f8f8]",
         disabledBg |-> "bg-transparent",
         disabledText |-> "text-gray-400"])

\* The whitespace split tw.style applies to each class string it is given.
Tokens(s) ==
    CASE s = "flex-row items-center justify-center border-[1px]" ->
            <<"flex-row", "items-center", "justify-center", "border-[1px]">>
      [] s = "font-semibold tracking-wide" -> <<"font-semibold", "tracking-wide">>
      [] s = "text-sm mb-2" -> <<"text-sm", "mb-2">>
      [] s = "text-base mb-3" -> <<"text-base", "mb-3">>
      [] s = "text-lg mb-4" -> <<"text-lg", "mb-4">>
      [] s = "text-xl mb-5" -> <<"text-xl", "mb-5">>
      [] OTHER -> <<s>>

\* tw.style(...args): the classes of the truthy arguments, in argument order.
RECURSIVE twStyle(_)
twStyle(args) ==
    IF args = <<>> THEN <<>>
    ELSE (IF Head(args) = Undefined THEN <<>> ELSE Tokens(Value(Head(args))))
         \o twStyle(Tail(args))

-----------------------------------------------------------------------------
(* Button *)

theme == Default(button.theme, "primary-outlined")

\* Mutant: the wrong default size.
size_defaultSmall == Default(button.size, "small")

size == Default(button.size, "medium")

disabled == Default(button.disabled, FALSE)

loading == Default(button.loading, FALSE)

full == Default(button.full, FALSE)

\* Mutant: loading does not disable the button.
isDisabled_ignoresLoading == disabled

isDisabled == disabled \/ loading

themeStyles == themeConfig[theme]

sizeStyles == sizeConfig[size]

\* theme.includes('outlined')
includesOutlined(t) == t \in {"primary-outlined", "action-outlined", "light-outlined"}

\* Mutant: the light-outlined spinner takes the light fill colour.
getSpinnerColor_lightFill ==
    IF includesOutlined(theme)
    THEN IF theme = "primary-outlined" THEN COLORS.primary
         ELSE IF theme = "action-outlined" THEN COLORS.action
         ELSE COLORS.light
    ELSE IF theme = "light" THEN COLORS.black ELSE COLORS.white

getSpinnerColor ==
    IF includesOutlined(theme)
    THEN IF theme = "primary-outlined" THEN COLORS.primary
         ELSE IF theme = "action-outlined" THEN COLORS.action
         ELSE COLORS.gray
    ELSE IF theme = "light" THEN COLORS.black ELSE COLORS.white

\* Mutant: the press highlight is latched once a press has been served.
ButtonClasses_latchedPress ==
    twStyle(<<Some("flex-row items-center justify-center border-[1px]"),
              Get(sizeStyles, "paddingX"),
              Get(sizeStyles, "paddingY"),
              Get(sizeStyles, "rounded"),
              Get(themeStyles, "bg"),
              Get(themeStyles, "border"),
              And(pressed \/ onPressCalls > 0, And(~isDisabled, Get(themeStyles, "pressedBg"))),
              And(isDisabled, Get(themeStyles, "disabledBg")),
              And(isDisabled, Some("opacity-60")),
              And(full, Some("flex-1"))>>)

\* Mutant: the press highlight is not suppressed while disabled.
ButtonClasses_pressedWhileDisabled ==
    twStyle(<<Some("flex-row items-center justify-center border-[1px]"),
              Get(sizeStyles, "paddingX"),
              Get(sizeStyles, "paddingY"),
              Get(sizeStyles, "rounded"),
              Get(themeStyles, "bg"),
              Get(themeStyles, "border"),
              And(pressed, Get(themeStyles, "pressedBg")),
              And(isDisabled, Get(themeStyles, "disabledBg")),
              And(isDisabled, Some("opacity-60")),
              And(full, Some("flex-1"))>>)

\* Mutant: the disabled background follows the disabled prop only.
ButtonClasses_disabledBgIgnoresLoading ==
    twStyle(<<Some("flex-row items-center justify-center border-[1px]"),
              Get(sizeStyles, "paddingX"),
              Get(sizeStyles, "paddingY"),
              Get(sizeStyles, "rounded"),
              Get(themeStyles, "bg"),
              Get(themeStyles, "border"),
              And(pressed, And(~isDisabled, Get(themeStyles, "pressedBg"))),
              And(disabled, Get(themeStyles, "disabledBg")),
              And(isDisabled, Some("opacity-60")),
              And(full, Some("flex-1"))>>)

\* The tw.style(...) call inside the Pressable's style callback.
ButtonClasses ==
    twStyle(<<Some("flex-row items-center justify-center border-[1px]"),
              Get(sizeStyles, "paddingX"),
              Get(sizeStyles, "paddingY"),
              Get(sizeStyles, "rounded"),
              Get(themeStyles, "bg"),
              Get(themeStyles, "border"),
              And(pressed, And(~isDisabled, Get(themeStyles, "pressedBg"))),
              And(isDisabled, Get(themeStyles, "disabledBg")),
              And(isDisabled, Some("opacity-60")),
              And(full, Some("flex-1"))>>)

\* Mutant: the disabled text colour is added in every state.
TitleClasses_alwaysDisabledText ==
    twStyle(<<Some("font-semibold tracking-wide"),
              Get(sizeStyles, "textSize"),
              Get(themeStyles, "text"),
              Get(themeStyles, "disabledText")>>)

\* The tw.style(...) call on the title's Text.
TitleClasses ==
    twStyle(<<Some("font-semibold tracking-wide"),
              Get(sizeStyles, "textSize"),
              Get(themeStyles, "text"),
              And(isDisabled, Get(themeStyles, "disabledText"))>>)

\* The props Button hands to the Pressable.
PressableProps ==
    [onPress |-> button.onPress,
     disabled |-> isDisabled,
     style |-> <<ButtonClasses, button.style>>]

\* Mutant: the spinner replaces the title whenever the button is disabled.
ButtonChildren_spinnerWhenDisabled ==
    <<IF isDisabled
      THEN [kind |-> "ActivityIndicator", size |-> "small", color |-> getSpinnerColor]
      ELSE [kind |-> "Text", style |-> TitleClasses, children |-> button.title]>>

\* The children of the Pressable: the `loading ? ... : ...` expression.
ButtonChildren ==
    <<IF loading
      THEN [kind |-> "ActivityIndicator", size |-> "small", color |-> getSpinnerColor]
      ELSE [kind |-> "Text", style |-> TitleClasses, children |-> button.title]>>

ButtonOutput == [kind |-> "Pressable", props |-> PressableProps, children |-> ButtonChildren]

-----------------------------------------------------------------------------
(* AppText *)

AppText_size == Default(text.size, "medium")

AppText_bold == Default(text.bold, FALSE)

AppText_color == Default(text.color, "primary")

AppText_center == Default(text.center, FALSE)

\* Mutant: tertiary reuses the secondary colour class.
AppTextOwnArgs_tertiaryAsSecondary ==
    <<And(AppText_size = "small", Some("text-sm mb-2")),
      And(AppText_size = "medium", Some("text-base mb-3")),
      And(AppText_size = "large", Some("text-lg mb-4")),
      And(AppText_size = "heading", Some("text-xl mb-5")),
      And(AppText_bold, Some("font-bold")),
      And(AppText_color = "primary", Some("text-black")),
      And(AppText_color = "secondary", Some("text-gray-500")),
      And(AppText_color = "tertiary", Some("text-gray-500")),
      And(AppText_center, Some("text-center"))>>

\* The arguments of AppText's tw.style(...) call that come from its own props.
AppTextOwnArgs ==
    <<And(AppText_size = "small", Some("text-sm mb-2")),
      And(AppText_size = "medium", Some("text-base mb-3")),
      And(AppText_size = "large", Some("text-lg mb-4")),
      And(AppText_size = "heading", Some("text-xl mb-5")),
      And(AppText_bold, Some("font-bold")),
      And(AppText_color = "primary", Some("text-black")),
      And(AppText_color = "secondary", Some("text-gray-500")),
      And(AppText_color = "tertiary", Some("text-gray-400")),
      And(AppText_center, Some("text-center"))>>

\* The whole tw.style(...) call: className is the last argument.
AppTextClasses == twStyle(Append(AppTextOwnArgs, text.className))

AppTextOutput == [kind |-> "Text", style |-> AppTextClasses, children |-> text.children]

-----------------------------------------------------------------------------
(* What is on screen, and what it is a function of *)

Output == IF mounted = "Button" THEN ButtonOutput ELSE AppTextOutput

Key == IF mounted = "Button" THEN <<button, pressed>> ELSE <<text>>

-----------------------------------------------------------------------------
(* Prop domains *)

Optional(S) == {Undefined} \cup {Some(v) : v \in S}

ButtonPropDomain ==
    [title |-> {"Save", "Send"},
     onPress |-> Optional({"handler"}),
     theme |-> Optional(Themes),
     size |-> Optional(Sizes),
     disabled |-> Optional(BOOLEAN),
     loading |-> Optional(BOOLEAN),
     full |-> Optional(BOOLEAN),
     style |-> Optional({"width-200"})]

AppTextPropDomain ==
    [children |-> {"Hello"},
     size |-> Optional({"small", "medium", "large", "heading"}),
     bold |-> Optional(BOOLEAN),
     color |-> Optional({"primary", "secondary", "tertiary"}),
     center |-> Optional(BOOLEAN),
     className |-> Optional({"underline", "text-lg mb-4", "text-gray-400", "font-bold"})]

\* The narrower domains used when one earlier render is kept for comparison.
HistButtonPropDomain ==
    [title |-> {"Save"},
     onPress |-> {Some("handler")},
     theme |-> Optional(Themes),
     size |-> Optional({"small", "xlarge"}),
     disabled |-> {Some(TRUE), Some(FALSE)},
     loading |-> {Some(TRUE), Some(FALSE)},
     full |-> {Undefined},
     style |-> {Undefined}]

HistAppTextPropDomain ==
    [children |-> {"Hello"},
     size |-> Optional({"small", "medium", "large", "heading"}),
     bold |-> {Some(TRUE), Some(FALSE)},
     color |-> Optional({"primary", "secondary", "tertiary"}),
     center |-> {Undefined, Some(TRUE)},
     className |-> {Undefined, Some("underline")}]

\* Every props object a parent can pass, given the domain of each prop.
ButtonPropsOver(dom) ==
    [title : dom.title, onPress : dom.onPress, theme : dom.theme, size : dom.size,
     disabled : dom.disabled, loading : dom.loading, full : dom.full, style : dom.style]

AppTextPropsOver(dom) ==
    [children : dom.children, size : dom.size, bold : dom.bold, color : dom.color,
     center : dom.center, className : dom.className]

UnmountedButton ==
    [title |-> "Save", onPress |-> Undefined, theme |-> Undefined, size |-> Undefined,
     disabled |-> Undefined, loading |-> Undefined, full |-> Undefined,
     style |-> Undefined]

UnmountedText ==
    [children |-> "Hello", size |-> Undefined, bold |-> Undefined, color |-> Undefined,
     center |-> Undefined, className |-> Undefined]

-----------------------------------------------------------------------------
(* Steps *)

\* First render of whichever component the screen mounts, with any props.
InitWith(bdom, tdom) ==
    /\ mounted \in {"Button", "AppText"}
    /\ button \in IF mounted = "Button" THEN ButtonPropsOver(bdom) ELSE {UnmountedButton}
    /\ text \in IF mounted = "AppText" THEN AppTextPropsOver(tdom) ELSE {UnmountedText}
    /\ pressed = FALSE
    /\ onPressCalls = 0
    /\ styleBeforePress = Undefined
    /\ snap = Undefined

\* The parent re-renders Button with prop k now v.
ButtonRerender(k, v) ==
    /\ mounted = "Button"
    /\ button' = [button EXCEPT ![k] = v]
    /\ styleBeforePress' = Undefined
    /\ UNCHANGED <<mounted, pressed, onPressCalls, text, snap>>

\* The parent re-renders AppText with prop k now v.
AppTextRerender(k, v) ==
    /\ mounted = "AppText"
    /\ text' = [text EXCEPT ![k] = v]
    /\ UNCHANGED <<mounted, button, pressed, onPressCalls, styleBeforePress, snap>>

\* A touch starts on the Pressable; a disabled Pressable ignores it.
PressIn ==
    /\ mounted = "Button"
    /\ ~pressed
    /\ ~PressableProps.disabled
    /\ pressed' = TRUE
    /\ styleBeforePress' = Some(ButtonClasses)
    /\ UNCHANGED <<mounted, button, onPressCalls, text, snap>>

\* The touch ends without a press (it moved off, or was cancelled).
PressOut ==
    /\ mounted = "Button"
    /\ pressed
    /\ pressed' = FALSE
    /\ styleBeforePress' = Undefined
    /\ UNCHANGED <<mounted, button, onPressCalls, text, snap>>

\* The Pressable calls the onPress it was given, unless it is disabled.
onPressInvoked == PressableProps.onPress # Undefined /\ ~PressableProps.disabled

\* The touch is released on the Pressable.
Press ==
    /\ mounted = "Button"
    /\ pressed
    /\ onPressInvoked => onPressCalls < MaxCalls
    /\ pressed' = FALSE
    /\ onPressCalls' = IF onPressInvoked THEN onPressCalls + 1 ELSE onPressCalls
    /\ styleBeforePress' = Undefined
    /\ UNCHANGED <<mounted, button, text, snap>>

\* History only: remember the current render.
Snapshot ==
    /\ snap' = Some([key |-> Key, out |-> Output, calls |-> onPressCalls])
    /\ UNCHANGED <<mounted, button, pressed, onPressCalls, styleBeforePress, text>>

Init == InitWith(ButtonPropDomain, AppTextPropDomain)

Next ==
    \/ \E k \in DOMAIN ButtonPropDomain : \E v \in ButtonPropDomain[k] : ButtonRerender(k, v)
    \/ \E k \in DOMAIN AppTextPropDomain : \E v \in AppTextPropDomain[k] : AppTextRerender(k, v)
    \/ PressIn
    \/ PressOut
    \/ Press

Spec == Init /\ [][Next]_vars

InitHist == InitWith(HistButtonPropDomain, HistAppTextPropDomain)

NextHist ==
    \/ \E k \in DOMAIN HistButtonPropDomain :
          \E v \in HistButtonPropDomain[k] : ButtonRerender(k, v)
    \/ \E k \in DOMAIN HistAppTextPropDomain :
          \E v \in HistAppTextPropDomain[k] : AppTextRerender(k, v)
    \/ PressIn
    \/ PressOut
    \/ Press
    \/ Snapshot

SpecHist == InitHist /\ [][NextHist]_vars

-----------------------------------------------------------------------------
(* Properties *)

Range(seq) == {seq[i] : i \in DOMAIN seq}

\* How many entries of seq are in S.
Count(seq, S) == Cardinality({i \in DOMAIN seq : seq[i] \in S})

\* The entries of seq that are in S, in order.
Only(seq, S) == SelectSeq(seq, LAMBDA c : c \in S)

Last(seq) == seq[Len(seq)]

\* The props as the parent passed them, read without the component's code.
PropTheme == IF button.theme = Undefined THEN "primary-outlined" ELSE Value(button.theme)

PropSize == IF button.size = Undefined THEN "medium" ELSE Value(button.size)

PropDisabled == button.disabled = Some(TRUE)

PropLoading == button.loading = Some(TRUE)

OutlinedThemes == {"primary-outlined", "action-outlined", "light-outlined"}

FilledThemes == {"primary", "action", "light"}

PaddingXClasses == {"px-3", "px-4", "px-6", "px-8"}

PaddingYClasses == {"py-2", "py-3", "py-4", "py-5"}

RoundedClasses == {"rounded-md", "rounded-lg", "rounded-xl"}

\* Every background class of themeConfig.
BgClasses ==
    {"bg-[#F02C56]", "bg-[#0095f6]", "bg-[#f1f1f1]", "bg-transparent",
     "bg-[#d02647]", "bg-[#0077cc]", "bg-[#e0e0e0]", "bg-[#fef0f3]", "bg-[#e6f5ff]",
     "bg-[#f8f8f8]", "bg-[#f59db3]", "bg-[#7fc7fa]"}

\* Every text colour class of themeConfig.
TextColorClasses ==
    {"text-white", "text-black", "text-[#F02C56]", "text-[#0095f6]", "text-gray-800",
     "text-[#f59db3]", "text-[#7fc7fa]", "text-gray-400"}

\* The Pressable's class list and its only child, as rendered.
RenderedClasses == ButtonOutput.props.style[1]

RenderedChild == ButtonOutput.children[1]

(* C1: the Pressable gets disabled=true iff the disabled prop or the loading *)
(* prop is true, and every step that invokes onPress is the release of a     *)
(* press taken while both are false.                                         *)
C1_OnPressOnlyWhenEnabled ==
    [][/\ ButtonOutput.props.disabled = (PropDisabled \/ PropLoading)
       /\ onPressCalls' # onPressCalls =>
             /\ pressed /\ ~pressed'
             /\ ~PropDisabled /\ ~PropLoading
             /\ onPressCalls' = onPressCalls + 1]_vars

\* A press has been served, and a later touch is down on a button that has
\* since become non-interactive.
C1_Witness ==
    /\ mounted = "Button"
    /\ onPressCalls > 0
    /\ pressed
    /\ PropLoading
    /\ ButtonOutput.props.disabled

(* C2: the Pressable has exactly one child: the ActivityIndicator iff loading *)
(* is true, otherwise the Text showing title, whatever disabled is.           *)
C2_ExactlyOneChild ==
    mounted = "Button" =>
        /\ Len(ButtonOutput.children) = 1
        /\ RenderedChild.kind \in {"ActivityIndicator", "Text"}
        /\ RenderedChild.kind = "ActivityIndicator" <=> PropLoading
        /\ RenderedChild.kind = "Text" =>
              ~PropLoading /\ RenderedChild.children = button.title

\* Disabled but not loading: the title is what shows.
C2_Witness ==
    /\ mounted = "Button"
    /\ PropDisabled /\ ~PropLoading
    /\ RenderedChild.kind = "Text"

C4_TableLookup ==
    mounted = "Button" =>
        /\ PropTheme \in DOMAIN themeConfig
        /\ PropSize \in DOMAIN sizeConfig
        /\ Only(RenderedClasses, PaddingXClasses) = <<sizeConfig[PropSize].paddingX>>
        /\ Only(RenderedClasses, PaddingYClasses) = <<sizeConfig[PropSize].paddingY>>
        /\ Only(RenderedClasses, RoundedClasses) = <<sizeConfig[PropSize].rounded>>
        /\ themeConfig[PropTheme].bg \in Range(RenderedClasses)
        /\ themeConfig[PropTheme].border \in Range(RenderedClasses)

\* Theme and size both omitted.
C4_Witness ==
    /\ mounted = "Button"
    /\ button.theme = Undefined
    /\ button.size = Undefined
    /\ "px-4" \in Range(RenderedClasses)
    /\ "border-[#F02C56]" \in Range(RenderedClasses)

AppTextSizeClasses ==
    {"text-sm", "mb-2", "text-base", "mb-3", "text-lg", "mb-4", "text-xl", "mb-5"}

AppTextColorClasses == {"text-black", "text-gray-500", "text-gray-400"}

ExpectedSizeEntry ==
    LET s == IF text.size = Undefined THEN "medium" ELSE Value(text.size)
    IN  CASE s = "small" -> <<"text-sm", "mb-2">>
          [] s = "medium" -> <<"text-base", "mb-3">>
          [] s = "large" -> <<"text-lg", "mb-4">>
          [] s = "heading" -> <<"text-xl", "mb-5">>

ExpectedColorClass ==
    LET c == IF text.color = Undefined THEN "primary" ELSE Value(text.color)
    IN  CASE c = "primary" -> "text-black"
          [] c = "secondary" -> "text-gray-500"
          [] c = "tertiary" -> "text-gray-400"

\* One size entry, one colour class, font-bold iff bold, text-center iff center.
OneOfEach(classes) ==
    /\ Only(classes, AppTextSizeClasses) = ExpectedSizeEntry
    /\ Only(classes, AppTextColorClasses) = <<ExpectedColorClass>>
    /\ "font-bold" \in Range(classes) <=> text.bold = Some(TRUE)
    /\ "text-center" \in Range(classes) <=> text.center = Some(TRUE)

(* C5 as stated: for every combination of AppText props the composed style   *)
(* holds exactly one size entry and one colour class, font-bold iff bold and *)
(* text-center iff center.                                                   *)
C5_Original == mounted = "AppText" => OneOfEach(AppTextOutput.style)

(* C5 as amended: the classes before the caller's className hold exactly one *)
(* size entry and one colour class, font-bold iff bold and text-center iff   *)
(* center; className, when given, follows them unchanged.                    *)
C5_OwnClasses ==
    mounted = "AppText" =>
        LET given == IF text.className = Undefined THEN <<>>
                     ELSE Tokens(Value(text.className))
            own == SubSeq(AppTextOutput.style, 1, Len(AppTextOutput.style) - Len(given))
        IN  /\ Len(AppTextOutput.style) >= Len(given)
            /\ AppTextOutput.style = own \o given
            /\ OneOfEach(own)

\* A className that repeats a colour class of the table.
C5_Witness ==
    /\ mounted = "AppText"
    /\ text.className = Some("text-gray-400")
    /\ text.color = Some("secondary")
    /\ text.size = Undefined
    /\ Len(AppTextOutput.style) = 4

C7_Original ==
    mounted = "Button" =>
        /\ "opacity-60" \in Range(RenderedClasses) <=> PropDisabled \/ PropLoading
        /\ themeConfig[PropTheme].disabledBg \in Range(RenderedClasses)
              <=> PropDisabled \/ PropLoading
        /\ PropDisabled \/ PropLoading =>
              Last(Only(RenderedClasses, BgClasses)) = themeConfig[PropTheme].disabledBg

(* C7 as amended: 'opacity-60' is in the style iff disabled or loading is    *)
(* true; the disabledBg entry is added exactly then, after the base bg, and  *)
(* is then the last background class; for an outlined theme disabledBg is    *)
(* the base 'bg-transparent' itself, so that class is present in every state.*)
C7_DisabledVisuals ==
    mounted = "Button" =>
        LET off == PropDisabled \/ PropLoading
            bg == themeConfig[PropTheme].bg
            disabledBg == themeConfig[PropTheme].disabledBg
        IN  /\ "opacity-60" \in Range(RenderedClasses) <=> off
            /\ Count(RenderedClasses, {disabledBg})
                  = (IF bg = disabledBg THEN 1 ELSE 0) + (IF off THEN 1 ELSE 0)
            /\ PropTheme \in FilledThemes => (disabledBg \in Range(RenderedClasses) <=> off)
            /\ PropTheme \in OutlinedThemes =>
                  disabledBg = "bg-transparent" /\ disabledBg \in Range(RenderedClasses)
            /\ off => /\ Head(Only(RenderedClasses, BgClasses)) = bg
                      /\ Last(Only(RenderedClasses, BgClasses)) = disabledBg
                      /\ Len(Only(RenderedClasses, BgClasses)) = 2

\* Loading only, with a touch still down, on a filled theme.
C7_Witness ==
    /\ mounted = "Button"
    /\ PropLoading /\ ~PropDisabled
    /\ pressed
    /\ PropTheme = "primary"
    /\ "bg-[#f59db3]" \in Range(RenderedClasses)

ExpectedSpinnerColor ==
    CASE PropTheme = "primary-outlined" -> "#F02C56"
      [] PropTheme = "action-outlined" -> "#0095f6"
      [] PropTheme = "light-outlined" -> "#8e8e8e"
      [] PropTheme = "primary" -> "#ffffff"
      [] PropTheme = "action" -> "#ffffff"
      [] PropTheme = "light" -> "#000000"

(* C8: for each of the 6 themes the spinner colour is defined: for an        *)
(* outlined theme it is the colour inside that theme's border class          *)
(* (#F02C56, #0095f6, #8e8e8e), for primary and action white, for light      *)
(* black.                                                                    *)
C8_SpinnerColor ==
    mounted = "Button" =>
        /\ getSpinnerColor = ExpectedSpinnerColor
        /\ PropTheme \in OutlinedThemes =>
              themeConfig[PropTheme].border = "border-[" \o getSpinnerColor \o "]"
        /\ PropLoading => RenderedChild.color = ExpectedSpinnerColor

\* The spinner is showing on the light-outlined theme.
C8_Witness ==
    /\ mounted = "Button"
    /\ PropLoading
    /\ PropTheme = "light-outlined"
    /\ RenderedChild.kind = "ActivityIndicator"

ExpectedDisabledText ==
    CASE PropTheme = "primary-outlined" -> "text-[#f59db3]"
      [] PropTheme = "action-outlined" -> "text-[#7fc7fa]"
      [] PropTheme = "light-outlined" -> "text-gray-400"

(* C9: when the title is rendered, a disabled outlined button has its        *)
(* disabledText class right after its base text class; a filled button has   *)
(* the base text class alone, disabled or not; and an enabled button of any  *)
(* theme has the base text class alone.                                      *)
C9_DisabledText ==
    mounted = "Button" /\ RenderedChild.kind = "Text" =>
        LET colors == Only(RenderedChild.style, TextColorClasses)
            base == themeConfig[PropTheme].text
        IN  /\ PropDisabled /\ PropTheme \in OutlinedThemes =>
                  colors = <<base, ExpectedDisabledText>>
            /\ PropTheme \in FilledThemes => colors = <<base>>
            /\ ~PropDisabled => colors = <<base>>
            /\ Last(RenderedChild.style) = Last(colors)

\* A disabled outlined button showing its title.
C9_Witness ==
    /\ mounted = "Button"
    /\ PropDisabled /\ ~PropLoading
    /\ PropTheme = "light-outlined"
    /\ RenderedChild.kind = "Text"
    /\ "text-gray-400" \in Range(RenderedChild.style)

=============================================================================
